---- MODULE Spec2Model ----
(***************************************************************************)
(* The Queue cog of buttercup (src/buttercup/cogs/queue.py): the cached    *)
(* queue snapshot, its refresh cycle, the registry of messages kept        *)
(* up-to-date and the /queue command.                                      *)
(*                                                                         *)
(* Execution model: one asyncio event loop.  A coroutine runs without      *)
(* interruption until it awaits something that really suspends: the sleep  *)
(* of the tasks.loop, ctx.send and msg.edit.  blossom_api.get is a         *)
(* blocking call, so a refresh (update_queue) never yields to another      *)
(* coroutine; it is split into one step per request only because every     *)
(* request receives an answer chosen by the remote side.                   *)
(***************************************************************************)
EXTENDS Integers, Sequences, FiniteSets, TLC

VARIABLES
    cog,        \* the Queue instance: last_update, unclaimed, claimed, user_cache, messages
    loop,       \* the update_cycle task: position and locals of the running coroutine
    cmds,       \* the /queue invocations: message id -> position and locals
    clock,      \* wall-clock time in minutes (datetime.now())
    hist        \* history: what happened, recorded for the properties only

vars == <<cog, loop, cmds, clock, hist>>

(***************************************************************************)
(* Bounds of the model                                                     *)
(***************************************************************************)
MaxClock == 2       \* minutes the clock may advance
MaxCycles == 2      \* ticks of the update cycle
MaxPages == 2       \* the remote serves a short page at this page at the latest
MaxMsgs == 2        \* /queue invocations
MaxInFlight == 1    \* /queue invocations suspended at the same time
MaxCalls == 7       \* add_message calls of the registry on its own
MaxLookups == 2     \* /lookup invocations
RenameAt == 1       \* the minute the volunteers change their names
\* The page size of the model.  Both fetches of the program ask for pages of
\* 500 (queue.py: size = 500); the model runs them with a page just large
\* enough to fill the five rows shown and leave a remainder.
size == 6

(***************************************************************************)
(* Program constants                                                       *)
(***************************************************************************)
limit == 5              \* add_message: messages kept up-to-date
TopRows == 5            \* head(5): rows of the claimed table shown and looked up
Interval == 1           \* tasks.loop(minutes=1)
UnclaimedWindow == 1080 \* timedelta(hours=18), in minutes
ClaimedWindow == 2880   \* timedelta(hours=48), in minutes

\* Python's None where an object (a DataFrame, a time) is expected, and None
\* where a URL is expected
None == [none |-> TRUE]
NoneUrl == <<>>

Min(a, b) == IF a < b THEN a ELSE b
Max(a, b) == IF a > b THEN a ELSE b

(***************************************************************************)
(* Python list and DataFrame helpers                                       *)
(***************************************************************************)
\* lst[-n:] for n > 0
LastN(lst, n) == SubSeq(lst, Max(1, Len(lst) - n + 1), Len(lst))

\* df.head(n) / lst[:n]
head(df, n) == SubSeq(df, 1, Min(n, Len(df)))

\* df[n:] / lst[n:]
rest(df, n) == SubSeq(df, n + 1, Len(df))

Range(f) == {f[x] : x \in DOMAIN f}

(***************************************************************************)
(* The remote side (Blossom): what a request may be answered with          *)
(***************************************************************************)
Subs == <<"aww", "memes", "pics">>
UserIds == <<"1", "2", "3", "4", "5", "6">>
Variants == {1, 2}
PageLens == {0, 2, size}

UserUrl(uid) == <<"https:", "", "grafeas.org", "api", "volunteer", uid, "">>

\* who claimed the n-th submission of the claimed listing, in variant v
Claimant(v, n) ==
    IF v = 1 THEN UserIds[1] ELSE UserIds[((n - 1) % Len(UserIds)) + 1]

\* When the k-th submission the remote holds for a listing was created, in
\* minutes: the unclaimed ones one minute after the other, the oldest 18 hours
\* and a minute before the cog is constructed; the claimed ones lately.
CreateTime(req, k) ==
    IF req.claimed_by__isnull THEN k - 2 - UnclaimedWindow ELSE 0 - k

\* The remote honours create_time__gte: the first submission of the listing
\* is the oldest one created at that time or later.
First(req) ==
    IF req.claimed_by__isnull
    THEN Max(1, req.create_time__gte + UnclaimedWindow + 2)
    ELSE 1

\* The k-th submission the remote holds for the listing the request asks for,
\* as the API returns it: the remote honours the filters of the request.
RawSubmission(req, v, k) ==
    [id |-> k, tor_url |-> k,
     url |-> <<"https:", "", "reddit.com", "r", Subs[(k % Len(Subs)) + 1], "comments", k>>,
     claimed_by |-> IF req.claimed_by__isnull THEN NoneUrl ELSE UserUrl(Claimant(v, k)),
     claim_time |-> IF req.claimed_by__isnull THEN None ELSE 0 - k,
     completed_by |-> IF req.completed_by__isnull THEN NoneUrl ELSE UserUrl(UserIds[1]),
     archived |-> req.archived,
     create_time |-> CreateTime(req, k)]

\* the page the request asks for, holding n records
RawPage(req, v, n) ==
    [i \in 1..n |-> RawSubmission(req, v, First(req) - 1 + (req.page - 1) * size + i)]

\* An answer of the remote to a page request: not ok, or a page of n records.
\* The claimants vary on the first page of the claimed listing only.
PageAnswers(kind, page) ==
    {[ok |-> FALSE, n |-> 0, v |-> 1]}
    \cup {[ok |-> TRUE, n |-> n, v |-> v] :
            n \in {m \in PageLens : page < MaxPages \/ m < size},
            v \in IF kind = "claimed" /\ page = 1 THEN Variants ELSE {1}}

PageResponse(kind, req, ans) ==
    IF ans.ok
    THEN [ok |-> TRUE, status_code |-> 200, request |-> req,
          results |-> RawPage(req, ans.v, ans.n)]
    ELSE [ok |-> FALSE, status_code |-> 500, request |-> req, results |-> <<>>]

\* An answer of the remote to a volunteer lookup: not ok, or the volunteer
\* under the name it has at the moment (who claimed a submission exists).
UserAnswers ==
    {[ok |-> FALSE, found |-> FALSE], [ok |-> TRUE, found |-> TRUE]}

\* the name of volunteer uid at time now
UserName(uid, now) == IF now < RenameAt THEN "old_" \o uid ELSE "new_" \o uid

UserResponse(req, ans, now) ==
    [ok |-> ans.ok, status_code |-> IF ans.ok THEN 200 ELSE 500, request |-> req,
     results |-> IF ans.ok /\ ans.found
                 THEN <<[id |-> req.id, username |-> UserName(req.id, now)]>>
                 ELSE <<>>]

(***************************************************************************)
(* Module-level functions of queue.py                                      *)
(***************************************************************************)
\* user_url.split("/")[-2]
extract_user_id(user_url) == user_url[Len(user_url) - 1]

\* helpers.get_submission_source: the subreddit of the submission's URL
get_submission_source(submission) == submission.url[5]

fix_submission_source(submission) ==
    [id |-> submission.id, tor_url |-> submission.tor_url, url |-> submission.url,
     claimed_by |-> submission.claimed_by, claim_time |-> submission.claim_time,
     completed_by |-> submission.completed_by, archived |-> submission.archived,
     create_time |-> submission.create_time,
     source |-> get_submission_source(submission)]

NoResponse == [ok |-> TRUE, status_code |-> 0, request |-> [endpoint |-> ""], results |-> <<>>]
NoException == [type |-> "none", response |-> NoResponse]
BlossomException(response) == [type |-> "BlossomException", response |-> response]
PyError(type) == [type |-> type, response |-> NoResponse]

\* pd.DataFrame.from_records(data=results, index="id"): an empty list of
\* records has no column "id" to make the index of, which is a KeyError.
DataFrame(records) == [records |-> records]
from_records(results) ==
    IF results = <<>>
    THEN [exc |-> PyError("KeyError"), return |-> None]
    ELSE [exc |-> NoException, return |-> DataFrame(results)]

\* The request of get_unclaimed_submissions as it would be if it asked for the
\* posts of the last 19 hours
UnclaimedRequest_19_hours(queue_start, page) ==
    [endpoint |-> "submission/", page_size |-> size, page |-> page,
     completed_by__isnull |-> TRUE, claimed_by__isnull |-> TRUE, archived |-> FALSE,
     create_time__gte |-> queue_start - 60, ordering |-> ""]

\* The parameters of one page request of get_unclaimed_submissions.
UnclaimedRequest(queue_start, page) ==
    [endpoint |-> "submission/", page_size |-> size, page |-> page,
     completed_by__isnull |-> TRUE, claimed_by__isnull |-> TRUE, archived |-> FALSE,
     create_time__gte |-> queue_start, ordering |-> ""]

\* The parameters of one page request of get_claimed_submissions.
ClaimedRequest(queue_start, page) ==
    [endpoint |-> "submission/", page_size |-> size, page |-> page,
     completed_by__isnull |-> TRUE, claimed_by__isnull |-> FALSE, archived |-> FALSE,
     create_time__gte |-> queue_start, ordering |-> "-claim_time"]

\* get_unclaimed_submissions as it would be if it went on until a page
\* without records
get_unclaimed_submissions_until_empty(results, page, queue_response) ==
    IF ~queue_response.ok
    THEN [done |-> TRUE, exc |-> BlossomException(queue_response), return |-> None,
          results |-> results, page |-> page]
    ELSE LET data == [i \in DOMAIN queue_response.results |->
                        fix_submission_source(queue_response.results[i])]
             new == results \o data
         IN  IF Len(data) = 0
             THEN [done |-> TRUE, exc |-> from_records(new).exc,
                   return |-> from_records(new).return,
                   results |-> new, page |-> page + 1]
             ELSE [done |-> FALSE, exc |-> NoException, return |-> None,
                   results |-> new, page |-> page + 1]

\* One pass of the while loop of get_unclaimed_submissions, from the response
\* on: raise on a response that is not ok, else add the fixed records to the
\* results and either go on with the next page or build the table.
get_unclaimed_submissions(results, page, queue_response) ==
    IF ~queue_response.ok
    THEN [done |-> TRUE, exc |-> BlossomException(queue_response), return |-> None,
          results |-> results, page |-> page]
    ELSE LET data == [i \in DOMAIN queue_response.results |->
                        fix_submission_source(queue_response.results[i])]
             new == results \o data
         IN  IF Len(data) < size
             THEN [done |-> TRUE, exc |-> from_records(new).exc,
                   return |-> from_records(new).return,
                   results |-> new, page |-> page + 1]
             ELSE [done |-> FALSE, exc |-> NoException, return |-> None,
                   results |-> new, page |-> page + 1]

\* get_claimed_submissions as it would be if it left its loop on a response
\* that is not ok instead of raising
get_claimed_submissions_breaking(results, page, queue_response) ==
    LET data == [i \in DOMAIN queue_response.results |->
                    fix_submission_source(queue_response.results[i])]
        new == results \o data
    IN  IF ~queue_response.ok \/ Len(data) < size
        THEN [done |-> TRUE, exc |-> from_records(new).exc,
              return |-> from_records(new).return,
              results |-> new, page |-> page + 1]
        ELSE [done |-> FALSE, exc |-> NoException, return |-> None,
              results |-> new, page |-> page + 1]

\* The same pass of get_claimed_submissions.
get_claimed_submissions(results, page, queue_response) ==
    IF ~queue_response.ok
    THEN [done |-> TRUE, exc |-> BlossomException(queue_response), return |-> None,
          results |-> results, page |-> page]
    ELSE LET data == [i \in DOMAIN queue_response.results |->
                        fix_submission_source(queue_response.results[i])]
             new == results \o data
         IN  IF Len(data) < size
             THEN [done |-> TRUE, exc |-> from_records(new).exc,
                   return |-> from_records(new).return,
                   results |-> new, page |-> page + 1]
             ELSE [done |-> FALSE, exc |-> NoException, return |-> None,
                   results |-> new, page |-> page + 1]

\* dict with key k set to v
Put(d, k, v) == [x \in (DOMAIN d) \cup {k} |-> IF x = k THEN v ELSE d[x]]
EmptyDict == [x \in {} |-> 0]

\* The rows update_user_cache goes through: self.claimed.head(5)
TopClaimed(claimed) == head(claimed.records, TopRows)

VolunteerRequest(user_id) == [endpoint |-> "volunteer", id |-> user_id]

\* update_user_cache as it would be if it filled the dict of the cog instead
\* of a new one
update_user_cache_keeping(old, user_cache, user_id, user_response) ==
    LET carried == [x \in (DOMAIN old) \cup (DOMAIN user_cache) |->
                        IF x \in DOMAIN user_cache THEN user_cache[x] ELSE old[x]]
    IN  IF ~user_response.ok
        THEN [exc |-> BlossomException(user_response), user_cache |-> carried]
        ELSE IF Len(user_response.results) = 0
        THEN [exc |-> PyError("IndexError"), user_cache |-> carried]
        ELSE [exc |-> NoException,
              user_cache |-> Put(carried, user_id, user_response.results[1])]

\* update_user_cache as it would be if it looked up only the volunteers the
\* cog does not hold yet
update_user_cache_preferring_old(old, user_cache, user_id, user_response) ==
    IF user_id \in DOMAIN old
    THEN [exc |-> NoException, user_cache |-> Put(user_cache, user_id, old[user_id])]
    ELSE IF ~user_response.ok
    THEN [exc |-> BlossomException(user_response), user_cache |-> user_cache]
    ELSE IF Len(user_response.results) = 0
    THEN [exc |-> PyError("IndexError"), user_cache |-> user_cache]
    ELSE [exc |-> NoException,
          user_cache |-> Put(user_cache, user_id, user_response.results[1])]

\* One pass of the for loop of update_user_cache, from the response on:
\* user_cache is the local dict being built, old the dict of the cog.
update_user_cache(old, user_cache, user_id, user_response) ==
    LET carried == IF user_id \in DOMAIN old
                   THEN Put(user_cache, user_id, old[user_id])
                   ELSE user_cache
    IN  IF ~user_response.ok
        THEN [exc |-> BlossomException(user_response), user_cache |-> carried]
        ELSE IF Len(user_response.results) = 0
        THEN [exc |-> PyError("IndexError"), user_cache |-> carried]
        ELSE [exc |-> NoException,
              user_cache |-> Put(carried, user_id, user_response.results[1])]

\* add_message as it would be if it kept limit messages next to the new one
add_message_keeping_limit(self, msg) ==
    [self EXCEPT !.messages = LastN(@, limit) \o <<msg>>]

\* add_message: self.messages[-(limit - 1):] + [msg]
add_message(self, msg) ==
    [self EXCEPT !.messages = LastN(@, limit - 1) \o <<msg>>]

(***************************************************************************)
(* Rendering                                                               *)
(***************************************************************************)
\* unclaimed.reset_index().groupby(["source"])["id"].count(): the sources
\* present, each with the number of its rows
SourceCount(records, source) ==
    Cardinality({i \in DOMAIN records : records[i].source = source})

SourcesOf(records) == {records[i].source : i \in DOMAIN records}

\* .sort_values(ascending=False): the sources by falling count; sources of
\* equal count in the order of Subs
RECURSIVE SortedSources(_, _)
SortedSources(records, sources) ==
    IF sources = {} THEN <<>>
    ELSE LET best == CHOOSE s \in sources :
                        \A t \in sources :
                            \/ SourceCount(records, s) > SourceCount(records, t)
                            \/ /\ SourceCount(records, s) = SourceCount(records, t)
                               /\ \E i, j \in DOMAIN Subs :
                                     Subs[i] = s /\ Subs[j] = t /\ i <= j
         IN  <<[source |-> best, count |-> SourceCount(records, best)]>>
             \o SortedSources(records, sources \ {best})

RECURSIVE SumCounts(_)
SumCounts(sources) ==
    IF sources = <<>> THEN 0 ELSE Head(sources).count + SumCounts(Tail(sources))

get_unclaimed_list(sources) ==
    [items |-> head(sources, 5),
     others |-> IF Len(sources) > 5
                THEN [post_count |-> SumCounts(rest(sources, 5)),
                      source_count |-> Len(rest(sources, 5))]
                ELSE [post_count |-> 0, source_count |-> 0]]

get_claimed_item(submission, user_cache) ==
    LET author_id == extract_user_id(submission.claimed_by)
        author == IF author_id \in DOMAIN user_cache
                  THEN user_cache[author_id]
                  ELSE [username |-> author_id]
    IN  [author |-> "u/" \o author.username, source |-> submission.source,
         url |-> submission.tor_url, time |-> submission.claim_time]

\* get_claimed_list as it would be if its notice counted every submission
get_claimed_list_counting_all(claimed, user_cache) ==
    [items |-> [i \in DOMAIN head(claimed.records, 5) |->
                    get_claimed_item(claimed.records[i], user_cache)],
     other_count |-> IF Len(claimed.records) > 5
                     THEN Len(claimed.records) ELSE 0]

\* items: the entries of the list; other_count: the count of the notice that
\* follows them, 0 where there is no notice
get_claimed_list(claimed, user_cache) ==
    [items |-> [i \in DOMAIN head(claimed.records, 5) |->
                    get_claimed_item(claimed.records[i], user_cache)],
     other_count |-> IF Len(claimed.records) > 5
                     THEN Len(rest(claimed.records, 5)) ELSE 0]

NoEdit == [sent |-> FALSE]

\* update_message up to the Embed it builds: the counts, the two messages and
\* the color, or the exception raised on the way (None has no index)
QueueEmbed(self) ==
    IF self.unclaimed = None \/ self.claimed = None
    THEN [exc |-> PyError("AttributeError")]
    ELSE
    LET unclaimed_count == Len(self.unclaimed.records)
        claimed_count == Len(self.claimed.records)
        sources == SortedSources(self.unclaimed.records,
                                 SourcesOf(self.unclaimed.records))
        unclaimed_message ==
            IF unclaimed_count = 0
            THEN [cleared |-> TRUE, count |-> 0, list |-> get_unclaimed_list(<<>>)]
            ELSE [cleared |-> FALSE, count |-> unclaimed_count,
                  list |-> get_unclaimed_list(sources)]
        claimed_list == get_claimed_list(self.claimed, self.user_cache)
        claimed_message ==
            IF claimed_count = 0
            THEN [cleared |-> TRUE, count |-> 0,
                  list |-> [items |-> <<>>, other_count |-> 0]]
            ELSE [cleared |-> FALSE, count |-> claimed_count, list |-> claimed_list]
        color == IF unclaimed_count = 0 THEN "COMPLETED_COLOR"
                 ELSE IF claimed_count > 0 THEN "IN_PROGRESS_COLOR"
                 ELSE "UNCLAIMED_COLOR"
    IN  [exc |-> NoException, unclaimed_message |-> unclaimed_message,
         claimed_message |-> claimed_message, color |-> color]

\* update_message as it would be if it cut the claimed table of the cog down
\* to the rows it shows
update_message_cutting(self, msg) ==
    LET embed == QueueEmbed(self)
    IN  IF embed.exc.type # "none"
        THEN [exc |-> embed.exc, self |-> self, edit |-> NoEdit]
        ELSE [exc |-> NoException,
              self |-> [self EXCEPT !.claimed = DataFrame(head(@.records, 5))],
              edit |-> [sent |-> TRUE, msg |-> msg, last_updated |-> self.last_update,
                        embed |-> embed]]

\* update_message up to its await: the content and the embed handed to
\* msg.edit, or the exception raised on the way.  Reads self, returns it as
\* it leaves it.
update_message(self, msg) ==
    LET embed == QueueEmbed(self)
    IN  IF embed.exc.type # "none"
        THEN [exc |-> embed.exc, self |-> self, edit |-> NoEdit]
        ELSE [exc |-> NoException, self |-> self,
              edit |-> [sent |-> TRUE, msg |-> msg, last_updated |-> self.last_update,
                        embed |-> embed]]

(***************************************************************************)
(* State                                                                   *)
(***************************************************************************)
Snapshot(self) ==
    [unclaimed |-> self.unclaimed, claimed |-> self.claimed,
     user_cache |-> self.user_cache, last_update |-> self.last_update]

\* the update_cycle task neither sleeping nor suspended in msg.edit: it holds
\* the event loop, no other coroutine runs
LoopRunning ==
    loop.pc \in {"get_unclaimed", "get_claimed", "update_user_cache", "update_messages"}

InFlight == {m \in DOMAIN cmds : cmds[m].pc \in {"send", "edit"}}

\* Queue.__init__, and update_cycle.start()
Init ==
    /\ clock = 0
    /\ cog = [last_update |-> 0, unclaimed |-> None, claimed |-> None,
              user_cache |-> EmptyDict, messages |-> <<>>]
    /\ loop = [pc |-> "sleep", next_iteration |-> 0, queue_start |-> 0,
               results |-> <<>>, page |-> 1, idx |-> 1, user_cache |-> EmptyDict,
               iter |-> <<>>, edit |-> NoEdit]
    /\ cmds = [m \in 1..MaxMsgs |-> [pc |-> "new", edit |-> NoEdit]]
    /\ hist = [cycle |-> 0, ended |-> 0,
               pre |-> Snapshot([last_update |-> 0, unclaimed |-> None, claimed |-> None,
                                 user_cache |-> EmptyDict]),
               log |-> <<>>, raised |-> NoException, raised_in |-> "",
               origin |-> [unclaimed |-> 0, claimed |-> 0, user_cache |-> 0,
                           last_update |-> 0],
               registered |-> <<>>, edited |-> <<>>, dropped |-> {}, fetched_at |-> 0]

TimePasses ==
    /\ clock < MaxClock
    /\ clock' = clock + 1
    /\ UNCHANGED <<cog, loop, cmds, hist>>

(***************************************************************************)
(* The update cycle                                                        *)
(***************************************************************************)
\* The requests of the step of update_queue under way (its fetch of a table,
\* its rebuild of the user cache), each with its answer: a request of the
\* next step starts the log anew.
Logged(log, entry) ==
    IF log # <<>> /\ log[Len(log)].kind # entry.kind
    THEN <<entry>>
    ELSE Append(log, entry)

\* the loop as it would be if it started an iteration whenever its time has
\* come
TickEnabledByTimeAlone == clock >= loop.next_iteration

\* tasks.loop(minutes=1): the next iteration starts when the task sleeps
\* between two iterations and the time of the next iteration has come
TickEnabled == loop.pc = "sleep" /\ clock >= loop.next_iteration

\* when the iteration under way started: tasks.loop sets the time of the next
\* iteration at the start of an iteration
CycleStart == loop.next_iteration - Interval

\* An exception leaves update_cycle: nothing in queue.py catches it, and it
\* is none of the connection errors tasks.loop retries after, so it ends the task.
Raise(exc, where, log) ==
    /\ loop' = [loop EXCEPT !.pc = "failed", !.results = <<>>, !.page = 1,
                            !.user_cache = EmptyDict, !.edit = NoEdit]
    /\ hist' = [hist EXCEPT !.raised = exc, !.raised_in = where, !.log = log,
                            !.ended = @ + 1]

\* update_cycle as it would be if update_queue fetched the claimed submissions
\* first
update_cycle_claimed_first ==
    /\ TickEnabled
    /\ hist.cycle < MaxCycles
    /\ loop' = [loop EXCEPT !.pc = "get_claimed",
                            !.next_iteration = clock + Interval,
                            !.queue_start = clock - ClaimedWindow,
                            !.results = <<>>, !.page = 1]
    /\ hist' = [hist EXCEPT !.cycle = @ + 1, !.pre = Snapshot(cog), !.log = <<>>,
                            !.edited = <<>>, !.dropped = {}]
    /\ UNCHANGED <<cog, cmds, clock>>

\* update_cycle starts: update_queue, get_unclaimed_submissions up to its
\* first request
update_cycle ==
    /\ TickEnabled
    /\ hist.cycle < MaxCycles
    /\ loop' = [loop EXCEPT !.pc = "get_unclaimed",
                            !.next_iteration = clock + Interval,
                            !.queue_start = clock - UnclaimedWindow,
                            !.results = <<>>, !.page = 1]
    /\ hist' = [hist EXCEPT !.cycle = @ + 1, !.pre = Snapshot(cog), !.log = <<>>,
                            !.edited = <<>>, !.dropped = {}]
    /\ UNCHANGED <<cog, cmds, clock>>

\* update_queue, first line: one page request of get_unclaimed_submissions;
\* at its return self.unclaimed is assigned and get_claimed_submissions starts
UnclaimedPage ==
    /\ loop.pc = "get_unclaimed"
    /\ \E ans \in PageAnswers("unclaimed", loop.page) :
        LET req == UnclaimedRequest(loop.queue_start, loop.page)
            r == get_unclaimed_submissions(loop.results, loop.page,
                                           PageResponse("unclaimed", req, ans))
            log == Logged(hist.log, [kind |-> "unclaimed", req |-> req, ans |-> ans])
        IN  IF r.exc.type # "none"
            THEN Raise(r.exc, "get_unclaimed_submissions", log) /\ UNCHANGED cog
            ELSE IF ~r.done
            THEN /\ loop' = [loop EXCEPT !.results = r.results, !.page = r.page]
                 /\ hist' = [hist EXCEPT !.log = log]
                 /\ UNCHANGED cog
            ELSE /\ cog' = [cog EXCEPT !.unclaimed = r.return]
                 /\ loop' = [loop EXCEPT !.pc = "get_claimed",
                                         !.queue_start = clock - ClaimedWindow,
                                         !.results = <<>>, !.page = 1]
                 /\ hist' = [hist EXCEPT !.log = log,
                                         !.origin.unclaimed = hist.cycle,
                                         !.fetched_at = CycleStart]
    /\ UNCHANGED <<cmds, clock>>

\* update_queue, second line: one page request of get_claimed_submissions;
\* at its return self.claimed is assigned and update_user_cache starts
ClaimedPage ==
    /\ loop.pc = "get_claimed"
    /\ \E ans \in PageAnswers("claimed", loop.page) :
        LET req == ClaimedRequest(loop.queue_start, loop.page)
            r == get_claimed_submissions(loop.results, loop.page,
                                         PageResponse("claimed", req, ans))
            log == Logged(hist.log, [kind |-> "claimed", req |-> req, ans |-> ans])
        IN  IF r.exc.type # "none"
            THEN Raise(r.exc, "get_claimed_submissions", log) /\ UNCHANGED cog
            ELSE IF ~r.done
            THEN /\ loop' = [loop EXCEPT !.results = r.results, !.page = r.page]
                 /\ hist' = [hist EXCEPT !.log = log]
                 /\ UNCHANGED cog
            ELSE /\ cog' = [cog EXCEPT !.claimed = r.return]
                 /\ loop' = [loop EXCEPT !.pc = "update_user_cache",
                                         !.results = <<>>, !.page = 1,
                                         !.idx = 1, !.user_cache = EmptyDict]
                 /\ hist' = [hist EXCEPT !.log = log,
                                         !.origin.claimed = hist.cycle]
    /\ UNCHANGED <<cmds, clock>>

\* UserLookup as it would be if update_user_cache filled self.user_cache in
\* place
UserLookup_in_place ==
    /\ loop.pc = "update_user_cache"
    /\ \E ans \in UserAnswers :
        LET rows == TopClaimed(cog.claimed)
            user_id == extract_user_id(rows[loop.idx].claimed_by)
            req == VolunteerRequest(user_id)
            r == update_user_cache(cog.user_cache, loop.user_cache, user_id,
                                   UserResponse(req, ans, clock))
            log == Logged(hist.log, [kind |-> "user", req |-> req, ans |-> ans])
        IN  IF r.exc.type # "none"
            THEN /\ Raise(r.exc, "update_user_cache", log)
                 /\ cog' = [cog EXCEPT !.user_cache = loop.user_cache]
            ELSE IF loop.idx < Len(rows)
            THEN /\ loop' = [loop EXCEPT !.idx = @ + 1, !.user_cache = r.user_cache]
                 /\ hist' = [hist EXCEPT !.log = log]
                 /\ cog' = [cog EXCEPT !.user_cache = r.user_cache]
            ELSE /\ cog' = [cog EXCEPT !.user_cache = r.user_cache,
                                       !.last_update = clock]
                 /\ loop' = [loop EXCEPT !.pc = "update_messages", !.idx = 1,
                                         !.user_cache = EmptyDict, !.iter = cog.messages]
                 /\ hist' = [hist EXCEPT !.log = <<>>,
                                         !.pre = Snapshot(cog'),
                                         !.dropped = (DOMAIN cog.user_cache)
                                                        \ (DOMAIN r.user_cache),
                                         !.origin.user_cache = hist.cycle,
                                         !.origin.last_update = hist.cycle]
    /\ UNCHANGED <<cmds, clock>>

\* update_queue, third and last line: one volunteer lookup of
\* update_user_cache; after the last one self.user_cache and self.last_update
\* are assigned and update_messages starts on the list self.messages is then
UserLookup ==
    /\ loop.pc = "update_user_cache"
    /\ \E ans \in UserAnswers :
        LET rows == TopClaimed(cog.claimed)
            user_id == extract_user_id(rows[loop.idx].claimed_by)
            req == VolunteerRequest(user_id)
            r == update_user_cache(cog.user_cache, loop.user_cache, user_id,
                                   UserResponse(req, ans, clock))
            log == Logged(hist.log, [kind |-> "user", req |-> req, ans |-> ans])
        IN  IF r.exc.type # "none"
            THEN Raise(r.exc, "update_user_cache", log) /\ UNCHANGED cog
            ELSE IF loop.idx < Len(rows)
            THEN /\ loop' = [loop EXCEPT !.idx = @ + 1, !.user_cache = r.user_cache]
                 /\ hist' = [hist EXCEPT !.log = log]
                 /\ UNCHANGED cog
            ELSE /\ cog' = [cog EXCEPT !.user_cache = r.user_cache,
                                       !.last_update = clock]
                 /\ loop' = [loop EXCEPT !.pc = "update_messages", !.idx = 1,
                                         !.user_cache = EmptyDict, !.iter = cog.messages]
                 /\ hist' = [hist EXCEPT !.log = <<>>,
                                         !.pre = Snapshot(cog'),
                                         !.dropped = (DOMAIN cog.user_cache)
                                                        \ (DOMAIN r.user_cache),
                                         !.origin.user_cache = hist.cycle,
                                         !.origin.last_update = hist.cycle]
    /\ UNCHANGED <<cmds, clock>>

\* update_messages: the next message of the list, rendered up to msg.edit;
\* at the end of the list update_cycle returns and the task sleeps
update_messages ==
    /\ loop.pc = "update_messages"
    /\ IF loop.idx > Len(loop.iter)
       THEN /\ loop' = [loop EXCEPT !.pc = "sleep", !.idx = 1, !.iter = <<>>,
                                    !.next_iteration = Max(@, clock)]
            /\ hist' = [hist EXCEPT !.ended = @ + 1, !.edited = <<>>]
            /\ UNCHANGED cog
       ELSE LET r == update_message(cog, loop.iter[loop.idx])
            IN  IF r.exc.type # "none"
                THEN Raise(r.exc, "update_messages", hist.log) /\ cog' = r.self
                ELSE /\ cog' = r.self
                     /\ loop' = [loop EXCEPT !.pc = "edit", !.edit = r.edit]
                     /\ UNCHANGED hist
    /\ UNCHANGED <<cmds, clock>>

\* msg.edit of update_messages completes, or raises (the message is gone)
MessageEdited ==
    /\ loop.pc = "edit"
    /\ \E ok \in BOOLEAN :
        IF ok
        THEN /\ loop' = [loop EXCEPT !.pc = "update_messages", !.idx = @ + 1,
                                     !.edit = NoEdit]
             /\ hist' = [hist EXCEPT !.edited = Append(@, loop.edit.msg)]
        ELSE Raise(PyError("NotFound"), "update_messages", hist.log)
    /\ UNCHANGED <<cog, cmds, clock>>

(***************************************************************************)
(* The /queue command                                                      *)
(***************************************************************************)
\* queue: ctx.send, which creates the message the command answers with
queue(m) ==
    /\ ~LoopRunning
    /\ cmds[m].pc = "new"
    /\ \A k \in DOMAIN cmds : k < m => cmds[k].pc # "new"
    /\ Cardinality(InFlight) < MaxInFlight
    /\ cmds' = [cmds EXCEPT ![m].pc = "send"]
    /\ UNCHANGED <<cog, loop, clock, hist>>

\* queue after ctx.send: update_message up to msg.edit
QueueSent(m) ==
    /\ ~LoopRunning
    /\ cmds[m].pc = "send"
    /\ LET r == update_message(cog, m)
       IN  /\ cog' = r.self
           /\ IF r.exc.type # "none"
              THEN cmds' = [cmds EXCEPT ![m].pc = "error"]
              ELSE cmds' = [cmds EXCEPT ![m].pc = "edit", ![m].edit = r.edit]
    /\ UNCHANGED <<loop, clock, hist>>

\* QueueEdited as it would be if queue registered the message whether or not
\* update_message had raised
QueueEdited_registering_anyway(m) ==
    /\ ~LoopRunning
    /\ cmds[m].pc = "edit"
    /\ \E ok \in BOOLEAN :
        /\ cog' = add_message(cog, m)
        /\ cmds' = [cmds EXCEPT ![m].pc = IF ok THEN "done" ELSE "error",
                                ![m].edit = NoEdit]
        /\ hist' = [hist EXCEPT !.registered = Append(@, m)]
    /\ UNCHANGED <<loop, clock>>

\* queue after msg.edit: add_message, or the exception of msg.edit
QueueEdited(m) ==
    /\ ~LoopRunning
    /\ cmds[m].pc = "edit"
    /\ \E ok \in BOOLEAN :
        IF ok
        THEN /\ cog' = add_message(cog, m)
             /\ cmds' = [cmds EXCEPT ![m].pc = "done", ![m].edit = NoEdit]
             /\ hist' = [hist EXCEPT !.registered = Append(@, m)]
        ELSE /\ cmds' = [cmds EXCEPT ![m].pc = "error", ![m].edit = NoEdit]
             /\ UNCHANGED <<cog, hist>>
    /\ UNCHANGED <<loop, clock>>

Next ==
    \/ TimePasses
    \/ update_cycle
    \/ UnclaimedPage
    \/ ClaimedPage
    \/ UserLookup
    \/ update_messages
    \/ MessageEdited
    \/ \E m \in DOMAIN cmds : queue(m)
    \/ \E m \in DOMAIN cmds : QueueSent(m)
    \/ \E m \in DOMAIN cmds : QueueEdited(m)

Spec == Init /\ [][Next]_vars

(***************************************************************************)
(* The registry on its own: /queue invocations on a cog whose first update *)
(* cycle has completed (one page of unclaimed and one page of claimed      *)
(* submissions), with no further tick.                                     *)
(***************************************************************************)
FirstUnclaimed ==
    get_unclaimed_submissions(<<>>, 1,
        PageResponse("unclaimed", UnclaimedRequest(0 - UnclaimedWindow, 1),
                     [ok |-> TRUE, n |-> 2, v |-> 1])).return

FirstClaimed ==
    get_claimed_submissions(<<>>, 1,
        PageResponse("claimed", ClaimedRequest(0 - ClaimedWindow, 1),
                     [ok |-> TRUE, n |-> 2, v |-> 1])).return

FirstUserCache ==
    update_user_cache(EmptyDict, EmptyDict, UserIds[1],
        UserResponse(VolunteerRequest(UserIds[1]),
                     [ok |-> TRUE, found |-> TRUE], 0)).user_cache

InitRegistry ==
    /\ clock = MaxClock
    /\ cog = [last_update |-> 0, unclaimed |-> FirstUnclaimed, claimed |-> FirstClaimed,
              user_cache |-> FirstUserCache, messages |-> <<>>]
    /\ loop = [pc |-> "sleep", next_iteration |-> MaxClock + Interval, queue_start |-> 0,
               results |-> <<>>, page |-> 1, idx |-> 1, user_cache |-> EmptyDict,
               iter |-> <<>>, edit |-> NoEdit]
    /\ cmds = [m \in 1..MaxCalls |-> [pc |-> "new", edit |-> NoEdit]]
    /\ hist = [cycle |-> 1, ended |-> 1, pre |-> Snapshot(cog),
               log |-> <<>>, raised |-> NoException, raised_in |-> "",
               origin |-> [unclaimed |-> 1, claimed |-> 1, user_cache |-> 1,
                           last_update |-> 1],
               registered |-> <<>>, edited |-> <<>>, dropped |-> {}, fetched_at |-> 0]

NextRegistry ==
    \/ \E m \in DOMAIN cmds : queue(m)
    \/ \E m \in DOMAIN cmds : QueueSent(m)
    \/ \E m \in DOMAIN cmds : QueueEdited(m)

SpecRegistry == InitRegistry /\ [][NextRegistry]_vars

(***************************************************************************)
(* The /lookup command (lookup.py)                                         *)
(*                                                                         *)
(* A URL string is modelled by its parts between the "/" of the string:    *)
(* "https://reddit.com/r/aww/" is <<"https:", "", "reddit.com", "r",       *)
(* "aww", "">>.                                                            *)
(***************************************************************************)
\* an Optional[str] that is not None
Some(str) == [none |-> FALSE, str |-> str]

\* the reddit_url a user may hand to /lookup
LookupUrls ==
    {<<"https:", "", "reddit.com", "r", "TranscribersOfReddit", "comments", "a", "t", "">>,
     <<"https:", "", "www.reddit.com", "r", "aww", "comments", "a", "t">>,
     <<"https:", "", "old.reddit.com", "r", "aww", "comments", "a", "t", "c", "">>,
     <<"https:", "", "reddit.com">>,
     <<"https:", "", "example.com", "r", "aww", "comments", "a", "t", "">>,
     <<"reddit.com", "r", "aww", "comments", "a", "t", "">>}

\* the network locations of LookupUrls that hold the text "reddit"
HoldsReddit(netloc) == netloc \in {"reddit.com", "www.reddit.com", "old.reddit.com"}

\* urlparse(reddit_url_str): the network location is what follows "//", the
\* path what follows the network location; a string without "//" is all path
urlparse(url) ==
    IF Len(url) >= 3 /\ url[2] = ""
    THEN [netloc |-> url[3], path |-> IF Len(url) = 3 THEN <<>> ELSE <<"">> \o SubSeq(url, 4, Len(url))]
    ELSE [netloc |-> "", path |-> url]

\* str.endswith("/"): the string has a "/" and nothing after the last one
endswith_slash(path) == Len(path) >= 2 /\ path[Len(path)] = ""

\* path + "/"
add_slash(path) == IF path = <<>> THEN <<"", "">> ELSE Append(path, "")

\* Lookup._parse_reddit_url
parse_reddit_url(reddit_url_str) ==
    LET parse_result == urlparse(reddit_url_str)
    IN  IF ~HoldsReddit(parse_result.netloc)
        THEN None
        ELSE IF ~endswith_slash(parse_result.path)
        THEN Some(add_slash(parse_result.path))
        ELSE Some(parse_result.path)

\* f"https://reddit.com{path}": a string also where path is None, which is
\* formatted as the text "None"
format_normalized_url(path) ==
    IF path = None
    THEN Some(<<"https:", "", "reddit.comNone">>)
    ELSE Some(<<"https:", "", "reddit.com">> \o Tail(path.str))

\* "/r/TranscribersOfReddit" in path
in_tor(path) ==
    \E i \in 2..(Len(path) - 1) : path[i] = "r" /\ path[i + 1] = "TranscribersOfReddit"

\* What Blossom may answer get_submission and get_transcription with: a
\* status, and data that is None, empty or holds one entry.
BlossomAnswers ==
    {[ok |-> FALSE, data |-> "None"], [ok |-> TRUE, data |-> "None"],
     [ok |-> TRUE, data |-> "empty"], [ok |-> TRUE, data |-> "one"]}

\* response.status != BlossomStatus.ok or response.data is None or
\* len(response.data) == 0
NothingFound(response) == ~response.ok \/ response.data \in {"None", "empty"}

\* the submission a transcription names, as a URL of Blossom
SubmissionUrl == <<"https:", "", "grafeas.org", "api", "submission", "3", "">>

NoContent == [kind |-> "none", url |-> <<>>]

\* _lookup after ctx.send has returned, up to its msg.edit: the requests made
\* to Blossom and the content handed to msg.edit, or the exception raised on
\* the way.  tr_response and response are the answers Blossom gives.
lookup_after_send(reddit_url, path, normalized_url, tr_response, response) ==
    IF normalized_url = None
    THEN [exc |-> NoException, requests |-> <<>>,
          content |-> [kind |-> "not recognized", url |-> reddit_url]]
    ELSE IF path = None
    \* "/r/TranscribersOfReddit" in None
    THEN [exc |-> PyError("TypeError"), requests |-> <<>>, content |-> NoContent]
    ELSE
    LET not_found == [kind |-> "not found", url |-> normalized_url.str]
        found == [kind |-> "found", url |-> normalized_url.str]
        edit(requests, r) ==
            [exc |-> NoException, requests |-> requests,
             content |-> IF NothingFound(r) THEN not_found ELSE found]
    IN  IF in_tor(path.str)
        THEN edit(<<[call |-> "get_submission", by |-> "tor_url",
                     value |-> normalized_url.str]>>, response)
        ELSE IF Len(path.str) >= 8
        THEN LET tr == [call |-> "get_transcription", by |-> "url",
                        value |-> normalized_url.str]
             IN  IF NothingFound(tr_response)
                 THEN [exc |-> NoException, requests |-> <<tr>>, content |-> not_found]
                 ELSE edit(<<tr, [call |-> "get_submission", by |-> "id",
                                  value |-> <<SubmissionUrl[Len(SubmissionUrl) - 1]>>]>>,
                           response)
        ELSE edit(<<[call |-> "get_submission", by |-> "url",
                     value |-> normalized_url.str]>>, response)

NewLookup ==
    [pc |-> "new", reddit_url |-> <<>>, path |-> None, normalized_url |-> None,
     content |-> NoContent, edit |-> NoContent, requests |-> <<>>,
     exc |-> NoException]

\* Lookup.__init__, next to the Queue cog as constructed, which /lookup leaves
\* alone
InitLookup ==
    /\ clock = 0
    /\ cog = [last_update |-> 0, unclaimed |-> None, claimed |-> None,
              user_cache |-> EmptyDict, messages |-> <<>>]
    /\ loop = [pc |-> "sleep", next_iteration |-> 0, queue_start |-> 0,
               results |-> <<>>, page |-> 1, idx |-> 1, user_cache |-> EmptyDict,
               iter |-> <<>>, edit |-> NoEdit]
    /\ cmds = [m \in 1..MaxLookups |-> NewLookup]
    /\ hist = [cycle |-> 0, ended |-> 0, pre |-> Snapshot(cog),
               log |-> <<>>, raised |-> NoException, raised_in |-> "",
               origin |-> [unclaimed |-> 0, claimed |-> 0, user_cache |-> 0,
                           last_update |-> 0],
               registered |-> <<>>, edited |-> <<>>, dropped |-> {}, fetched_at |-> 0]

\* _lookup up to its await ctx.send
lookup(m) ==
    /\ cmds[m].pc = "new"
    /\ \E reddit_url \in LookupUrls :
        LET path == parse_reddit_url(reddit_url)
            normalized_url == format_normalized_url(path)
        IN  cmds' = [cmds EXCEPT ![m] = [@ EXCEPT !.pc = "send",
                        !.reddit_url = reddit_url, !.path = path,
                        !.normalized_url = normalized_url,
                        !.content = [kind |-> "looking", url |-> normalized_url.str]]]
    /\ UNCHANGED <<cog, loop, clock, hist>>

\* _lookup after ctx.send, up to its await msg.edit
LookupSent(m) ==
    /\ cmds[m].pc = "send"
    /\ \E tr_response \in BlossomAnswers, response \in BlossomAnswers :
        LET r == lookup_after_send(cmds[m].reddit_url, cmds[m].path,
                                   cmds[m].normalized_url, tr_response, response)
        IN  cmds' = [cmds EXCEPT ![m] = [@ EXCEPT
                        !.pc = IF r.exc.type = "none" THEN "edit" ELSE "error",
                        !.exc = r.exc, !.requests = r.requests,
                        !.edit = r.content]]
    /\ UNCHANGED <<cog, loop, clock, hist>>

\* msg.edit of _lookup completes, or raises (the message is gone)
LookupEdited(m) ==
    /\ cmds[m].pc = "edit"
    /\ \E ok \in BOOLEAN :
        cmds' = [cmds EXCEPT ![m] = [@ EXCEPT
                    !.pc = IF ok THEN "done" ELSE "error",
                    !.content = IF ok THEN cmds[m].edit ELSE @,
                    !.edit = NoContent,
                    !.exc = IF ok THEN @ ELSE PyError("NotFound")]]
    /\ UNCHANGED <<cog, loop, clock, hist>>

NextLookup ==
    \/ \E m \in DOMAIN cmds : lookup(m)
    \/ \E m \in DOMAIN cmds : LookupSent(m)
    \/ \E m \in DOMAIN cmds : LookupEdited(m)

SpecLookup == InitLookup /\ [][NextLookup]_vars

(***************************************************************************)
(* Properties                                                              *)
(***************************************************************************)
RefreshSteps ==
    {"get_unclaimed_submissions", "get_claimed_submissions", "update_user_cache"}

\* update_queue was left by the exception of a response that was not ok
RefreshFailed ==
    /\ loop.pc = "failed"
    /\ hist.raised.type = "BlossomException"
    /\ hist.raised_in \in RefreshSteps

\* C1: after a refresh that failed on a response that was not ok, the
\* unclaimed table, the claimed table and last_update are what they were when
\* the refresh started.
C1_FailedRefreshChangesNothing ==
    RefreshFailed =>
        /\ cog.unclaimed = hist.pre.unclaimed
        /\ cog.claimed = hist.pre.claimed
        /\ cog.last_update = hist.pre.last_update

\* update_message runs up to its msg.edit, for the update cycle or for a
\* /queue command: it reads the cache
RenderStep ==
    \/ loop.pc = "update_messages" /\ loop'.pc = "edit"
    \/ \E m \in DOMAIN cmds : cmds[m].pc = "send" /\ cmds'[m].pc = "edit"

OneCycle(origin) ==
    /\ origin.unclaimed = origin.claimed
    /\ origin.claimed = origin.user_cache
    /\ origin.user_cache = origin.last_update

\* C2: whenever update_message reads the cache, the two tables, the user
\* cache and last_update all come from one and the same refresh.
C2_RenderSeesOneCycle == [][RenderStep => OneCycle(hist.origin)]_vars

\* update_messages was left by the exception of a msg.edit
BroadcastFailed ==
    /\ loop.pc = "failed"
    /\ hist.raised_in = "update_messages"
    /\ hist.raised.type = "NotFound"

\* C3: when the edit of one message of a broadcast fails, every other message
\* of the list is still edited in that broadcast.
C3_OtherTargetsStillUpdated ==
    BroadcastFailed =>
        \A i \in DOMAIN loop.iter :
            i # loop.idx => loop.iter[i] \in Range(hist.edited)

\* C4: a refresh that fails skips the broadcast of its tick and leaves the
\* update cycle running, so that a later tick runs the refresh again.
C4_FailedRefreshKeepsCycleRunning ==
    (hist.raised.type = "BlossomException" /\ hist.raised_in \in RefreshSteps) =>
        /\ hist.edited = <<>>
        /\ loop.pc # "failed"

\* C5: the registry holds at most 5 messages, the most recently registered
\* ones in the order of their registration.
C5_RegistryKeepsLastFive ==
    /\ Len(cog.messages) <= 5
    /\ cog.messages = LastN(hist.registered, 5)

\* a sixth message was registered and the oldest one is gone
C5_Witness ==
    /\ Len(hist.registered) = 6
    /\ cog.messages = SubSeq(hist.registered, 2, 6)

\* the table the cog holds for a fetch
Table(kind) == IF kind = "unclaimed" THEN cog.unclaimed ELSE cog.claimed
Before(kind) == IF kind = "unclaimed" THEN hist.pre.unclaimed ELSE hist.pre.claimed

\* the records of the pages served to the fetch under way, in page order
RECURSIVE Served(_)
Served(log) ==
    IF log = <<>> THEN <<>>
    ELSE LET e == log[Len(log)]
             page == RawPage(e.req, e.ans.v, e.ans.n)
         IN  Served(SubSeq(log, 1, Len(log) - 1))
             \o [i \in DOMAIN page |-> fix_submission_source(page[i])]

\* every page of the log was served ok and the last one is short
FetchOver(log) ==
    /\ log # <<>>
    /\ log[1].kind \in {"unclaimed", "claimed"}
    /\ \A i \in DOMAIN log : log[i].ans.ok
    /\ log[Len(log)].ans.n < size

\* C6: a fetch whose pages are all served ok requests nothing after its first
\* short page and returns the records of its pages, in page order.
C6_FetchReturnsAllPagesInOrder ==
    /\ \A i \in DOMAIN hist.log :
          (hist.log[i].kind # "user" /\ i < Len(hist.log)) =>
              hist.log[i].ans.ok /\ hist.log[i].ans.n = size
    /\ FetchOver(hist.log) =>
          /\ hist.raised.type = "none"
          /\ Table(hist.log[1].kind) = DataFrame(Served(hist.log))

\* C7: a page request answered not ok makes its fetch fail with the exception
\* that carries this response, and the table of the cog stays the one from
\* before the refresh.
C7_FailedFetchReturnsNothing ==
    \A i \in DOMAIN hist.log :
        LET e == hist.log[i]
        IN  (e.kind # "user" /\ ~e.ans.ok) =>
                /\ loop.pc = "failed"
                /\ hist.raised = BlossomException(PageResponse(e.kind, e.req, e.ans))
                /\ Table(e.kind) = Before(e.kind)

\* the second page of a claimed fetch is answered not ok after a full first
\* page, in a cycle that started with both tables present
C7_Witness ==
    /\ loop.pc = "failed"
    /\ hist.raised_in = "get_claimed_submissions"
    /\ hist.cycle = 2
    /\ Len(hist.log) = 2
    /\ hist.log[1].ans.n = size
    /\ ~hist.log[2].ans.ok

\* C8: once update_user_cache has succeeded on a claimed table, the keys of
\* user_cache are the claimants of the first 5 rows of that table, at most 5.
C8_UserCacheHoldsTopClaimants ==
    (hist.origin.claimed > 0 /\ hist.origin.user_cache = hist.origin.claimed) =>
        /\ DOMAIN cog.user_cache =
              {extract_user_id(cog.claimed.records[i].claimed_by) :
                  i \in 1..Min(5, Len(cog.claimed.records))}
        /\ Cardinality(DOMAIN cog.user_cache) <= 5

\* a rebuild dropped volunteers of the cache before it, on a claimed table of
\* more than 5 rows
C8_Witness ==
    /\ hist.origin.claimed = 2
    /\ hist.origin.user_cache = 2
    /\ hist.dropped # {}
    /\ Len(cog.claimed.records) > 5

\* C9: at most one update cycle is under way, and one is under way exactly
\* while the task neither sleeps between two iterations nor has ended.
C9_NoOverlappingCycles ==
    /\ hist.cycle - hist.ended \in {0, 1}
    /\ (hist.cycle - hist.ended = 1) <=> (loop.pc \notin {"sleep", "failed"})

\* the time of the next iteration has come while the cycle is suspended in
\* the msg.edit of its broadcast
C9_Witness ==
    /\ loop.pc = "edit"
    /\ clock >= loop.next_iteration
    /\ hist.cycle - hist.ended = 1

\* a step of update_messages, update_message, the /queue command or
\* add_message
RenderPathStep ==
    \/ loop.pc \in {"update_messages", "edit"}
    \/ cmds' # cmds

\* C10: update_messages, update_message, the /queue command and add_message
\* leave unclaimed, claimed, last_update and user_cache as they are.
C10_RenderPathsOnlyRead ==
    [][RenderPathStep => Snapshot(cog') = Snapshot(cog)]_vars

\* a registered message is being edited by the broadcast while a /queue
\* command is suspended in the edit of its own message, on a claimed table of
\* more than 5 rows
C10_Witness ==
    /\ loop.pc = "edit"
    /\ cog.messages # <<>>
    /\ \E m \in DOMAIN cmds : cmds[m].pc = "edit"
    /\ Len(cog.claimed.records) > 5

\* a step that sends a request of the given kind to the remote
Requests(kind) ==
    /\ hist'.log # hist.log
    /\ hist'.log # <<>>
    /\ hist'.log[Len(hist'.log)].kind = kind

\* the refresh under way has assigned the table of the given fetch
Fetched(kind) ==
    IF kind = "unclaimed" THEN hist.origin.unclaimed = hist.cycle
    ELSE hist.origin.claimed = hist.cycle

\* C11: within one refresh every page request of the unclaimed fetch comes
\* before the first page request of the claimed fetch, every page request of
\* the claimed fetch before the first user lookup, and last_update is set
\* only by the step in which the last user lookup succeeded.
C11_RefreshStepsInSequence ==
    [][/\ Requests("unclaimed") =>
            /\ ~Fetched("unclaimed") /\ ~Fetched("claimed")
            /\ \A i \in DOMAIN hist.log : hist.log[i].kind = "unclaimed"
       /\ Requests("claimed") =>
            /\ Fetched("unclaimed") /\ ~Fetched("claimed")
            /\ \A i \in DOMAIN hist.log : hist.log[i].kind # "user"
       /\ Requests("user") =>
            /\ Fetched("unclaimed") /\ Fetched("claimed")
            /\ hist.origin.user_cache # hist.cycle
       /\ hist'.origin.last_update # hist.origin.last_update =>
            /\ Fetched("unclaimed") /\ Fetched("claimed")
            /\ loop.pc = "update_user_cache"
            /\ loop.idx = Len(TopClaimed(cog.claimed))
            /\ hist'.origin.user_cache = hist.cycle
            /\ hist'.raised = hist.raised
            /\ cog'.last_update = clock]_vars

\* the second refresh went through two pages of each fetch and the lookups of
\* five rows
C11_Witness ==
    /\ hist.cycle = 2
    /\ hist.origin = [unclaimed |-> 2, claimed |-> 2, user_cache |-> 2, last_update |-> 2]
    /\ Len(cog.unclaimed.records) > size
    /\ Len(cog.claimed.records) > size

\* C12: with a remote that honours the filters of a request, no record of the
\* unclaimed table is archived, claimed, completed or created more than 18
\* hours before the fetch that produced the table started; all page requests
\* of an unclaimed fetch carry the same filters and the same lower bound of
\* the creation time, 18 hours before the start of the fetch.
C12_UnclaimedTableHonoursFilters ==
    /\ cog.unclaimed # None =>
          \A i \in DOMAIN cog.unclaimed.records :
              LET r == cog.unclaimed.records[i]
              IN  /\ ~r.archived
                  /\ r.claimed_by = NoneUrl
                  /\ r.completed_by = NoneUrl
                  /\ r.create_time >= hist.fetched_at - 18 * 60
    /\ \A i \in DOMAIN hist.log :
          hist.log[i].kind = "unclaimed" =>
              /\ hist.log[i].req = [hist.log[1].req EXCEPT !.page = i]
              /\ hist.log[i].req.completed_by__isnull
              /\ hist.log[i].req.claimed_by__isnull
              /\ ~hist.log[i].req.archived
              /\ hist.log[i].req.create_time__gte = CycleStart - 18 * 60

\* a table of two pages, fetched a minute after the construction while the
\* clock went on between the pages: its first record is the one created
\* exactly 18 hours before the fetch, the older ones are left out
C12_Witness ==
    /\ cog.unclaimed # None
    /\ hist.fetched_at = 1
    /\ clock > hist.fetched_at
    /\ Len(cog.unclaimed.records) > size
    /\ cog.unclaimed.records[1].create_time = 1 - 18 * 60
    /\ cog.unclaimed.records[1].id = 3

\* the fetch under way was served one page, ok and without records
EmptyFetch ==
    /\ Len(hist.log) = 1
    /\ hist.log[1].kind \in {"unclaimed", "claimed"}
    /\ hist.log[1].ans.ok
    /\ hist.log[1].ans.n = 0

\* C13: a refresh whose fetches return zero records succeeds, and the render
\* of two empty tables reports both sections as cleared, with counts 0.
C13_EmptyQueueRendersCleared ==
    /\ EmptyFetch =>
          /\ hist.raised.type = "none"
          /\ loop.pc # "failed"
          /\ Table(hist.log[1].kind) = DataFrame(<<>>)
    /\ (cog.unclaimed = DataFrame(<<>>) /\ cog.claimed = DataFrame(<<>>)) =>
          LET embed == QueueEmbed(cog)
          IN  /\ embed.exc.type = "none"
              /\ embed.unclaimed_message.cleared /\ embed.unclaimed_message.count = 0
              /\ embed.claimed_message.cleared /\ embed.claimed_message.count = 0

\* the edits handed to msg.edit that have not completed yet
EditsInFlight ==
    {e \in {loop.edit} \cup {cmds[m].edit : m \in DOMAIN cmds} : e.sent}

\* C14: the claimed list of a table of n submissions has one entry for each of
\* the first min(n, 5) submissions, in the order of the table, and a notice
\* of n - 5 others exactly when n > 5.  Stated of the claimed table of the
\* cog and of each table made of its first n rows, and of the lists handed to
\* msg.edit.
C14_ClaimedListShowsFiveAndRemainder ==
    /\ cog.claimed # None =>
          \A n \in 1..Len(cog.claimed.records) :
              LET claimed == DataFrame(SubSeq(cog.claimed.records, 1, n))
                  l == get_claimed_list(claimed, cog.user_cache)
              IN  /\ Len(l.items) = Min(n, 5)
                  /\ \A i \in DOMAIN l.items :
                        /\ l.items[i] = get_claimed_item(claimed.records[i], cog.user_cache)
                        /\ l.items[i].url = claimed.records[i].tor_url
                  /\ l.other_count = IF n > 5 THEN n - 5 ELSE 0
    /\ \A e \in EditsInFlight :
          LET m == e.embed.claimed_message
          IN  /\ Len(m.list.items) = Min(m.count, 5)
              /\ m.list.other_count = IF m.count > 5 THEN m.count - 5 ELSE 0

\* a broadcast renders a claimed table of one full page: 5 entries and the
\* notice for the rest
C14_Witness ==
    /\ loop.pc = "edit"
    /\ loop.edit.embed.claimed_message.count = size
    /\ Len(loop.edit.embed.claimed_message.list.items) = 5
    /\ loop.edit.embed.claimed_message.list.other_count = size - 5

\* the /lookup commands whose URL _parse_reddit_url did not recognize
Unrecognized == {m \in DOMAIN cmds : cmds[m].pc # "new" /\ cmds[m].path = None}

\* C15: a /lookup command whose URL is not recognized makes no request to
\* Blossom and raises no error of its own, and the content it edits into its
\* reply is the "not recognized" message.
C15_UnrecognizedUrlIsReported ==
    \A m \in Unrecognized :
        /\ cmds[m].requests = <<>>
        /\ cmds[m].exc.type \in {"none", "NotFound"}
        /\ cmds[m].pc = "edit" => cmds[m].edit.kind = "not recognized"
        /\ cmds[m].pc = "done" => cmds[m].content.kind = "not recognized"

\* C16: the page requests of a fetch ask for the pages 1, 2, ... in turn, each
\* with the page size of the program; a fetch served n records in full pages
\* and a last short one has asked for n \div size + 1 pages (one request when
\* n = 0, one more request, answered with an empty page, when n is a positive
\* multiple of the page size).
C16_FetchAsksForConsecutivePages ==
    /\ \A i \in DOMAIN hist.log :
          hist.log[i].kind # "user" =>
              /\ hist.log[i].req.page = i
              /\ hist.log[i].req.page_size = size
    /\ FetchOver(hist.log) =>
          Len(hist.log) = (Len(Served(hist.log)) \div size) + 1

\* a fetch of the second refresh was served one full page and then an empty
\* one, and has returned its table
C16_Witness ==
    /\ hist.cycle = 2
    /\ Len(hist.log) = 2
    /\ hist.log[1].kind = "claimed"
    /\ hist.log[1].ans.ok /\ hist.log[1].ans.n = size
    /\ hist.log[2].ans.ok /\ hist.log[2].ans.n = 0
    /\ hist.origin.claimed = 2
    /\ Len(cog.claimed.records) = size

\* the record the remote returns for volunteer uid at some time of the
\* update cycle under way
ReturnedInThisCycle(user, uid) ==
    \E now \in CycleStart..clock :
        user = UserResponse(VolunteerRequest(uid), [ok |-> TRUE, found |-> TRUE],
                            now).results[1]

C18_FailedRebuildKeepsUserCache ==
    (/\ loop.pc = "failed"
     /\ hist.raised_in = "update_user_cache"
     /\ ~hist.log[Len(hist.log)].ans.ok) =>
        /\ hist.raised = BlossomException(
                UserResponse(hist.log[Len(hist.log)].req, hist.log[Len(hist.log)].ans, clock))
        /\ cog.user_cache = hist.pre.user_cache

\* the second rebuild failed in its second lookup, after its first lookup had
\* returned the new name of a volunteer the cog holds under the old one
C18_Witness ==
    /\ loop.pc = "failed"
    /\ hist.raised_in = "update_user_cache"
    /\ hist.cycle = 2
    /\ loop.idx > 1
    /\ hist.log[1].ans.ok
    /\ UserIds[1] \in DOMAIN cog.user_cache
    /\ cog.user_cache[UserIds[1]].username = UserName(UserIds[1], RenameAt - 1)
    /\ clock >= RenameAt

\* update_message is entered, by the /queue command or by the broadcast
RenderRuns ==
    \/ \E m \in DOMAIN cmds : cmds[m].pc = "send" /\ cmds'[m].pc # "send"
    \/ /\ loop.pc = "update_messages"
       /\ loop.idx <= Len(loop.iter)
       /\ loop'.pc \in {"edit", "failed"}

\* C19: update_message runs only when both the unclaimed and the claimed
\* table are present.
C19_RenderNeedsBothTables ==
    [][RenderRuns => (cog.unclaimed # None /\ cog.claimed # None)]_vars

\* the messages the registry holds or a broadcast goes through, has edited or
\* is editing
Broadcast ==
    Range(cog.messages) \cup Range(loop.iter) \cup Range(hist.edited)
        \cup Range(hist.registered)
        \cup {e.msg : e \in {x \in {loop.edit} : x.sent}}

\* C20: a message is registered, and reached by a broadcast, only after the
\* update_message of its /queue command has completed without error; the
\* message of a /queue command that ended in an error is never registered
\* and never reached by a broadcast.
C20_RegisteredOnlyAfterRender ==
    \A m \in DOMAIN cmds :
        /\ m \in Broadcast => cmds[m].pc = "done"
        /\ cmds[m].pc = "done" => m \in Range(hist.registered)
        /\ cmds[m].pc \in {"new", "send", "edit", "error"} => m \notin Broadcast

\* a broadcast edits a registered message while the message of a /queue
\* command that ended in an error stays out of the registry
C20_Witness ==
    /\ loop.pc = "edit"
    /\ cmds[loop.edit.msg].pc = "done"
    /\ \E m \in DOMAIN cmds : cmds[m].pc = "error" /\ m \notin Range(cog.messages)

====
